---- MODULE Spec2Model ----
(***************************************************************************)
(* Model of the peer link controller, net/IfController.c.                  *)
(*                                                                         *)
(* The controller is single threaded: every handler runs to completion,    *)
(* so each handler is one action.  The state is the controller's list of   *)
(* interfaces, each interface's peer map, the Peer structures, the switch  *)
(* slots the peers are registered in, the free jobs that callers' scopes   *)
(* hold, the pings in flight and the clock.  What a handler published or   *)
(* returned is kept in the output variables op, ret, events, pinged,       *)
(* authed, beacons, forwarded and encrypted, which describe the last       *)
(* handler only.                                                           *)
(***************************************************************************)
EXTENDS Integers, Sequences, FiniteSets, TLC

(* ------------------------------ bounds ------------------------------- *)
\* Peer structures ever allocated.
MaxPeers == 2
\* Interfaces ever registered with IfController_newIface.
MaxIfaces == 1
\* Slots of the switch.
NumSlots == 2
\* Clock advances in one behaviour.
MaxAdvances == 2
\* Handlers run in one behaviour that draws on every input.
MaxSteps == 4
\* Handlers run in one behaviour with one neighbour (one lladdr, one key).
MaxStepsNarrow == 5
\* Largest pingCount a behaviour reaches.
MaxPingCount == 2
\* Pings the switch pinger keeps in flight.
MaxConcurrentPings == 1

(* ------------------------ program constants -------------------------- *)
UNRESPONSIVE_AFTER_MILLISECONDS == 20480
PING_AFTER_MILLISECONDS == 3072
FORGET_AFTER_MILLISECONDS == 262144

IfController_PeerState_NEW == 0
IfController_PeerState_HANDSHAKE1 == 1
IfController_PeerState_ESTABLISHED == 4
IfController_PeerState_UNRESPONSIVE == -1
IfController_PeerState_UNAUTHENTICATED == -2
CryptoAuth_NEW == 0
CryptoAuth_ESTABLISHED == 4

beaconState_newState_OFF == 0
beaconState_newState_ACCEPT == 1
beaconState_newState_SEND == 2

bootstrapPeer_BAD_IFNUM == -1
bootstrapPeer_BAD_KEY == -2
bootstrapPeer_OUT_OF_SPACE == -3
bootstrapPeer_INTERNAL == -4
beaconState_NO_SUCH_IFACE == -1
beaconState_INVALID_STATE == -2
disconnectPeer_NOTFOUND == -1

Error_NONE == 0
Error_UNDELIVERABLE == 3
Error_LINK_LIMIT_EXCEEDED == 2
SwitchCore_addInterface_OUT_OF_SPACE == -1
SwitchCore_addInterface_OTHER == -2

\* The clock and the two timestamps of a Peer are uint64_t; the model keeps
\* the wrap-around of unsigned arithmetic at a width TLC can compute with.
Word == 2 ^ 20

(* ------------------------------ domains ------------------------------ *)
PeerIds == 1 .. MaxPeers
Labels == 1 .. NumSlots
LLAddrs == {"A", "B"}
\* Public keys: all zeroes (a session that has not learned its peer's key),
\* the local node's key, a key whose address is not in fc00::/8, two peers.
ZeroKey == "zero"
LocalKey == "local"
BadKey == "bad"
RemoteKeys == {"k1", "k2"}
Keys == {ZeroKey, LocalKey, BadKey} \cup RemoteKeys
\* Protocol versions: 0 is the value calloc leaves, "cur" is compatible with
\* Version_CURRENT_PROTOCOL, "old" is not.
NoVersion == "v0"
Versions == {"cur", "old"}
\* Clock steps: pingAfter, unresponsiveAfter, forgetAfter.
Deltas == {PING_AFTER_MILLISECONDS, UNRESPONSIVE_AFTER_MILLISECONDS,
           FORGET_AFTER_MILLISECONDS}
\* Session passwords: none set, and two a caller or a beacon can give.
NoPassword == "none"
Passwords == {"pw1", "pw2"}
\* Addressee of an event sent to every pathfinder.
AllPathfinders == "ffffffff"
Pathfinders == {"pf1"}

VARIABLES
    now,        \* Time_currentTimeMilliseconds
    advances,   \* clock advances so far
    steps,      \* handlers run so far
    idle,       \* the last handler left the controller's state as it was
    narrow,     \* the behaviour has one neighbour only, and is longer
    icis,       \* ic->icis: sequence of interfaces, ifNum = index - 1
    peerMap,    \* per interface: ici->peerMap, a sequence of entries
    peers,      \* the Peer structures, by id
    slots,      \* the switch: label -> registered peer, 0 when free
    scopeJobs,  \* peers whose bootstrap scope still holds a freeAlloc job
    pings,      \* pings in flight, per peer
    aborted,    \* an Assert_true failed or memory was corrupted
    op,         \* the last handler
    ret,        \* what it returned
    events,     \* the events it published, in order
    pinged,     \* the peers it called sendPing for, in order
    authed,     \* the peers it called CryptoAuth_setAuth for, in order
    beacons,    \* the interfaces it sent a beacon on, in order
    forwarded,  \* the peers whose frame it handed to the switch, in order
    encrypted   \* the peers whose session it handed a message to send, in order

vars == <<now, advances, steps, idle, narrow, icis, peerMap, peers, slots, scopeJobs, pings,
          aborted, op, ret, events, pinged, authed, beacons, forwarded,
          encrypted>>

\* The state a handler works on, as one record.  overflow is set when the
\* handler would pass a bound of the model; such a step is not taken.
World == [now |-> now, icis |-> icis, peerMap |-> peerMap, peers |-> peers,
          slots |-> slots, scopeJobs |-> scopeJobs, pings |-> pings,
          aborted |-> FALSE, overflow |-> FALSE, ret |-> 0, events |-> <<>>,
          pinged |-> <<>>, authed |-> <<>>, beacons |-> <<>>,
          forwarded |-> <<>>, encrypted |-> <<>>]

\* A Peer that was never allocated, and one whose allocator was freed.
NoPeer == [status |-> "unused", ici |-> 0, lladdr |-> "A", key |-> ZeroKey,
           caKey |-> ZeroKey, path |-> 0, state |-> 0, caState |-> 0,
           version |-> NoVersion, timeOfLastMessage |-> 0,
           timeOfLastPing |-> 0, pingCount |-> 0, handle |-> 0,
           isIncomingConnection |-> FALSE, auth |-> NoPassword]
FreedPeer == [NoPeer EXCEPT !.status = "freed"]

Live(w, p) == w.peers[p].status = "live"
LivePeers(w) == {p \in PeerIds : Live(w, p)}

\* uint64_t arithmetic.
Plus(a, b) == (a + b) % Word
Minus(a, b) == (a - b + Word) % Word


(* ------------------- collaborators: map, switch ---------------------- *)
\* util/Map.h: index of a key (an lladdr) in the map's arrays, -1 if absent.
\* Indexes are 0-based as in the code; the sequence holds entry i at i + 1.
Map_indexForKey(m, lladdr) ==
    IF \E i \in 1 .. Len(m) : m[i].key = lladdr
    THEN (CHOOSE i \in 1 .. Len(m) : m[i].key = lladdr) - 1
    ELSE -1

\* util/Map.h: index of a handle, -1 if absent.
Map_indexForHandle(m, handle) ==
    IF \E i \in 1 .. Len(m) : m[i].handle = handle
    THEN (CHOOSE i \in 1 .. Len(m) : m[i].handle = handle) - 1
    ELSE -1

\* util/Map.h: put.  A key that is present keeps its entry and its handle
\* and gets the new value; a new key is appended with a fresh handle (the
\* model uses the id of the inserted peer as the fresh handle).
Map_put(m, lladdr, p) ==
    LET i == Map_indexForKey(m, lladdr) IN
    IF i >= 0 THEN [m EXCEPT ![i + 1].value = p]
    ELSE Append(m, [key |-> lladdr, value |-> p, handle |-> p])

\* util/Map.h: remove the entry at an index, the later entries move down.
Map_remove(m, index) ==
    [j \in 1 .. (Len(m) - 1) |-> IF j <= index THEN m[j] ELSE m[j + 1]]

\* The label of the slot a peer's switchIf sits in, 0 if it has none.
SlotOf(w, p) ==
    IF \E l \in Labels : w.slots[l] = p
    THEN CHOOSE l \in Labels : w.slots[l] = p
    ELSE 0

FreeLabels(w) == {l \in Labels : w.slots[l] = 0}

\* SwitchCore_swapInterfaces: the two interfaces exchange their slots.
SwitchCore_swapInterfaces(w, a, b) ==
    [w EXCEPT !.slots = [l \in Labels |->
        IF w.slots[l] = a THEN b ELSE IF w.slots[l] = b THEN a ELSE w.slots[l]]]

\* Pings in flight over all peers.
RECURSIVE SumPings(_, _)
SumPings(f, S) ==
    IF S = {} THEN 0
    ELSE LET x == CHOOSE y \in S : TRUE IN f[x] + SumPings(f, S \ {x})

\* CryptoAuth_setAuth: the session of the Peer gets the password.
CryptoAuth_setAuth(w, p, password) ==
    [w EXCEPT !.peers[p].auth = password, !.authed = Append(@, p)]

(* --------------------------- sendPeer -------------------------------- *)
\* sendPeer: one PFChan event about a peer, to one pathfinder or to all.
\* A process that has aborted publishes nothing more.
sendPeer(w, pathfinderId, ev, p) ==
    IF w.aborted THEN w
    ELSE [w EXCEPT !.events = Append(@,
            [ev |-> ev, pf |-> pathfinderId, peer |-> p,
             key |-> w.peers[p].key, path |-> w.peers[p].path,
             version |-> w.peers[p].version])]

Abort(w) == [w EXCEPT !.aborted = TRUE]

(* ------------------------ closeInterface ----------------------------- *)
\* closeInterface, the free job of a Peer's allocator: publish PEER_GONE,
\* then take the Peer out of its interface's map; the assertion fails when
\* the handle is not in the map or the entry holds another Peer.
closeInterface(w, p) ==
    LET w1 == sendPeer(w, AllPathfinders, "PEER_GONE", p)
        ifn == w.peers[p].ici
        m == w.peerMap[ifn]
        index == Map_indexForHandle(m, w.peers[p].handle)
    IN  IF w.aborted THEN w
        ELSE IF ~(index >= 0 /\ m[index + 1].value = p) THEN Abort(w1)
        ELSE [w1 EXCEPT !.peerMap[ifn] = Map_remove(m, index)]

\* Allocator_free of a live Peer's allocator: its free jobs run
\* (closeInterface, the switch's removal of the interface, the pinger's
\* cancellation of the pings allocated from it) and the memory is released.
Allocator_free(w, p) ==
    LET w1 == closeInterface(w, p) IN
    IF w1.aborted THEN w1
    ELSE [w1 EXCEPT !.peers[p] = FreedPeer,
                    !.slots = [l \in Labels |->
                                 IF w1.slots[l] = p THEN 0 ELSE w1.slots[l]],
                    !.pings[p] = 0]

\* Allocator_free of an allocator that was freed before: the allocator and
\* the Peer are released memory.  The build can find the memory unmapped or
\* reused (abort), find the allocator marked freed (nothing happens), or
\* find it intact and run the free jobs again (closeInterface publishes
\* PEER_GONE and its assertion fails, the Peer is no longer in the map).
DoubleFreeOutcomes == {"nothing", "abort", "rerun"}
Allocator_freeAgain(w, p, outcome) ==
    CASE outcome = "nothing" -> w
      [] outcome = "abort" -> Abort(w)
      [] outcome = "rerun" -> Abort(sendPeer(w, AllPathfinders, "PEER_GONE", p))

\* freeAlloc, the job bootstrapPeer leaves on the caller's scope.
freeAlloc(w, p, outcome) ==
    IF Live(w, p) THEN Allocator_free(w, p)
    ELSE Allocator_freeAgain(w, p, outcome)


(* ------------------------------ pings -------------------------------- *)
\* pingCount++ (uint32_t, kept below the model's bound).
IncPingCount(w, p) ==
    IF w.peers[p].pingCount >= MaxPingCount THEN [w EXCEPT !.overflow = TRUE]
    ELSE [w EXCEPT !.peers[p].pingCount = @ + 1]

\* sendPing that also stamps timeOfLastPing with the time of sending.
sendPing_StampsTime(w, p) ==
    LET w1 == [IncPingCount(w, p) EXCEPT !.pinged = Append(@, p),
                                         !.peers[p].timeOfLastPing = w.now] IN
    IF SumPings(w1.pings, PeerIds) < MaxConcurrentPings
    THEN [w1 EXCEPT !.pings[p] = @ + 1]
    ELSE w1

\* sendPing: count the ping, then ask the switch pinger for one; the pinger
\* returns NULL when it is out of ping slots.
sendPing(w, p) ==
    LET w1 == [IncPingCount(w, p) EXCEPT !.pinged = Append(@, p)] IN
    IF SumPings(w1.pings, PeerIds) < MaxConcurrentPings
    THEN [w1 EXCEPT !.pings[p] = @ + 1]
    ELSE w1

Version_isCompatible(v) == v = "cur"

\* What a switch ping ends with (SwitchPinger_Result): a response, a
\* timeout, or a response the pinger found wrong.
PingResults == {"OK", "TIMEOUT", "LABEL_MISMATCH"}

\* onPingResponse: the protocol version is stored first; an incompatible
\* version returns after that; otherwise an Established peer is published
\* and timeOfLastPing is set.  The label of the response is compared with
\* the Peer's path for the debug log only (lines 234-238).
onPingResponse(w, p, res, version, label) ==
    IF res # "OK" THEN w
    ELSE LET w1 == [w EXCEPT !.peers[p].version = version] IN
         IF ~Version_isCompatible(version) THEN w1
         ELSE LET w2 == IF w1.peers[p].state = IfController_PeerState_ESTABLISHED
                        THEN sendPeer(w1, AllPathfinders, "PEER", p)
                        ELSE w1
              IN [w2 EXCEPT !.peers[p].timeOfLastPing = w.now]

(* ----------------------------- iciPing ------------------------------- *)
\* The peer was heard from, or answered a ping, less than pingAfter ago:
\* iciPing passes over it.
RecentlySeen(w, ep) ==
    /\ w.now < Plus(ep.timeOfLastMessage, PING_AFTER_MILLISECONDS)
    /\ w.now < Plus(ep.timeOfLastPing, PING_AFTER_MILLISECONDS)

\* Line 320 with >= in the place of >.
ForgetCond_AtForgetAfter(w, ep) ==
    /\ ep.isIncomingConnection
    /\ w.now >= Plus(ep.timeOfLastMessage, FORGET_AFTER_MILLISECONDS)
\* Line 320 without its test of isIncomingConnection.
ForgetCond_AnyPeer(w, ep) ==
    w.now > Plus(ep.timeOfLastMessage, FORGET_AFTER_MILLISECONDS)
\* Line 320: an incoming peer that is silent for longer than forgetAfter.
ForgetCond(w, ep) ==
    /\ ep.isIncomingConnection
    /\ w.now > Plus(ep.timeOfLastMessage, FORGET_AFTER_MILLISECONDS)

\* Line 329.
Unresponsive(w, ep) ==
    w.now > Plus(ep.timeOfLastMessage, UNRESPONSIVE_AFTER_MILLISECONDS)

\* Line 335 never skipping: every silent peer is pinged in every tick.
SkipPing_Never(ep) == FALSE

\* Line 335: seven pings out of eight to a silent peer are skipped.
SkipPing(ep) == ep.pingCount % 8 # 0

\* The loop of iciPing, from the state (i, count) of its two counters; the
\* map's count is read again in every round, as the code does.
RECURSIVE iciPingLoop(_, _, _, _)
iciPingLoop(w, ifn, i, count) ==
    LET m == w.peerMap[ifn] IN
    IF w.aborted \/ ~(count < Len(m)) THEN w
    ELSE
      LET i2 == (i + 1) % Len(m)
          p == m[i2 + 1].value
          ep == w.peers[p]
      IN
      IF RecentlySeen(w, ep) THEN iciPingLoop(w, ifn, i2, count + 1)
      ELSE IF ForgetCond(w, ep)
      THEN iciPingLoop(
               Allocator_free(sendPeer(w, AllPathfinders, "PEER_GONE", p), p),
               ifn, i2, count + 1)
      ELSE IF Unresponsive(w, ep)
      THEN LET w1 == sendPeer(w, AllPathfinders, "PEER_GONE", p) IN
           IF SkipPing(ep)
           THEN iciPingLoop(IncPingCount(w1, p), ifn, i2, count + 1)
           ELSE sendPing(
                  [w1 EXCEPT !.peers[p].state = IfController_PeerState_UNRESPONSIVE],
                  p)
      ELSE sendPing(w, p)

\* An interface whose scope was released is released memory: the handler
\* that reads it aborts or finds the structure as it was left.
TouchIface(w, ifn, ub) ==
    IF w.icis[ifn].released /\ ub THEN Abort(w) ELSE w

\* iciPing: nothing for an empty map, else the loop from a random start.
iciPing(w, ifn, startAt, ub) ==
    LET w1 == TouchIface(w, ifn, ub) IN
    IF w1.aborted \/ Len(w1.peerMap[ifn]) = 0 THEN w1
    ELSE iciPingLoop(w1, ifn, startAt % Len(w1.peerMap[ifn]), 0)

\* pingCallback: iciPing for every interface, in order.  starts is the
\* Random_uint32 drawn for each interface.
RECURSIVE pingCallbackFrom(_, _, _, _)
pingCallbackFrom(w, ifn, starts, ub) ==
    IF ifn > Len(w.icis) \/ w.aborted THEN w
    ELSE pingCallbackFrom(iciPing(w, ifn, starts[ifn], ub), ifn + 1, starts, ub)

pingCallback(w, starts, ub) == pingCallbackFrom(w, 1, starts, ub)


(* ------------------------ inbound data path -------------------------- *)
\* moveEndpointIfNeeded: the first other Peer in the interface's map with
\* the same public key gives its path to ep, the switch interfaces are
\* swapped and the other Peer is freed.
RECURSIVE moveEndpointFrom(_, _, _)
moveEndpointFrom(w, p, i) ==
    LET m == w.peerMap[w.peers[p].ici] IN
    IF ~(i < Len(m)) THEN w
    ELSE LET thisEp == m[i + 1].value IN
         IF thisEp # p /\ w.peers[thisEp].key = w.peers[p].key
         THEN Allocator_free(
                SwitchCore_swapInterfaces(
                    [w EXCEPT !.peers[p].path = w.peers[thisEp].path],
                    thisEp, p),
                thisEp)
         ELSE moveEndpointFrom(w, p, i + 1)

moveEndpointIfNeeded(w, p) == moveEndpointFrom(w, p, 0)

\* Iface_send(&ep->switchIf, msg): the switch takes the frame and answers.
ToSwitch(w, p, swRet) ==
    IF w.aborted THEN w
    ELSE [w EXCEPT !.forwarded = Append(@, p), !.ret = swRet]

\* The announcement made before the relocation: the event carries the path
\* the Peer had when the frame arrived.
EstablishedPeer_AnnounceFirst(w, p) ==
    moveEndpointIfNeeded(sendPeer(w, AllPathfinders, "PEER", p), p)

\* The session reports ESTABLISHED for a Peer in a state below it: the Peer
\* is relocated if another Peer of the map has its key, then announced to
\* every pathfinder.
EstablishedPeer(w, p) ==
    sendPeer(moveEndpointIfNeeded(w, p), AllPathfinders, "PEER", p)

\* receivedAfterCryptoAuth: a frame the session has decrypted.  hdrOk says
\* that the frame has 8 bytes or more and byte 7 of them is 1.
receivedAfterCryptoAuth(w, p, hdrOk, swRet) ==
    LET ep == w.peers[p]
        caState == ep.caState
    IN
    IF ep.state < IfController_PeerState_ESTABLISHED
    THEN LET w1 == [w EXCEPT !.peers[p].state = caState,
                             !.peers[p].key = ep.caKey] IN
         IF caState = CryptoAuth_ESTABLISHED
         THEN ToSwitch(EstablishedPeer(w1, p), p, swRet)
         ELSE IF ~hdrOk THEN [w1 EXCEPT !.ret = Error_NONE]
         ELSE IF (ep.pingCount + 1) % 7 # 0
         THEN ToSwitch(sendPing(w1, p), p, swRet)
         ELSE ToSwitch(w1, p, swRet)
    ELSE IF ep.state = IfController_PeerState_UNRESPONSIVE
            /\ caState = CryptoAuth_ESTABLISHED
    THEN ToSwitch([w EXCEPT !.peers[p].state = IfController_PeerState_ESTABLISHED],
                  p, swRet)
    ELSE ToSwitch([w EXCEPT !.peers[p].timeOfLastMessage = w.now], p, swRet)

\* What the remote end and the session make of a frame: the session rejects
\* it, or it decrypts it and is then in state caState with the remote key
\* key; the frame's switch header is as hdrOk says and the switch answers
\* swRet.
\* The admission test without the test of the length: byte 7 is read
\* whatever the frame holds.
HeaderOk_ByteOnly(length, byte7) == byte7 = 1

\* The admission test of a frame that arrives before the session is
\* established: the frame is dropped when it is shorter than 8 bytes or its
\* byte 7 is not 1.  byte7 is what is found at msg->bytes[7].
HeaderOk(length, byte7) == ~(length < 8 \/ byte7 # 1)

\* Lengths of decrypted frames and values of their byte 7.
FrameLengths == {7, 8}
HeaderBytes == {0, 1}

\* The states a session is in after it has decrypted a frame: in the
\* handshake, or established.
FrameStates == {IfController_PeerState_HANDSHAKE1, CryptoAuth_ESTABLISHED}
Frames ==
    [reject : {TRUE}, caState : {CryptoAuth_NEW}, key : {"k1"}, hdrOk : {FALSE},
     swRet : {Error_NONE}]
    \cup
    [reject : {FALSE}, caState : FrameStates, key : RemoteKeys,
     hdrOk : {HeaderOk(l, b) : l \in FrameLengths, b \in HeaderBytes},
     swRet : {Error_NONE, Error_UNDELIVERABLE}]

\* The session accepts a frame only in a way its handshake allows: its state
\* never goes back, a key once known stays, and the first frame a session
\* without a known key decrypts does not complete the handshake.
SessionAllows(ep, f) ==
    \/ f.reject
    \/ /\ f.caState >= ep.caState
       /\ ep.caKey # ZeroKey => f.key = ep.caKey
       /\ (ep.caKey = ZeroKey /\ ep.caState = CryptoAuth_NEW)
             => f.caState < CryptoAuth_ESTABLISHED

\* Iface_send(&ep->externalIf, msg): the session receives a frame.  A
\* rejected frame returns an error; a decrypted one updates the session and
\* goes on to receivedAfterCryptoAuth.
SessionReceive(w, p, f) ==
    IF f.reject THEN [w EXCEPT !.ret = Error_UNDELIVERABLE]
    ELSE receivedAfterCryptoAuth(
            [w EXCEPT !.peers[p].caState = f.caState,
                      !.peers[p].caKey = f.key],
            p, f.hdrOk, f.swRet)


(* -------------------------- creating peers --------------------------- *)
\* AddressCalc_addressForPublicKey and AddressCalc_validAddress: the
\* address of the key starts with 0xfc.
AddressCalc_validAddress(key) == key \in RemoteKeys \cup {LocalKey}

\* The next Peer structure to allocate, 0 when the model's bound is reached.
NewPeerId(w) ==
    IF \E p \in PeerIds : w.peers[p].status = "unused"
    THEN CHOOSE p \in PeerIds :
            /\ w.peers[p].status = "unused"
            /\ \A q \in PeerIds : w.peers[q].status = "unused" => p <= q
    ELSE 0

\* SwitchCore_addInterface: OUT_OF_SPACE when every slot is taken, else the
\* interface gets the first free slot, or the switch reports a fault: the
\* slots the model does not hold (the switch has other users) are all taken,
\* or another error.
SwitchFaults == {0, SwitchCore_addInterface_OUT_OF_SPACE,
                 SwitchCore_addInterface_OTHER}
SwitchCore_addInterface(w, p, fault) ==
    IF FreeLabels(w) = {} THEN [w EXCEPT !.ret = SwitchCore_addInterface_OUT_OF_SPACE]
    ELSE IF fault # 0 THEN [w EXCEPT !.ret = fault]
    ELSE LET l == CHOOSE x \in FreeLabels(w) : \A y \in FreeLabels(w) : x <= y IN
         [w EXCEPT !.slots[l] = p, !.peers[p].path = l, !.ret = 0]

\* now - pingAfterMilliseconds - 1, in uint64_t.
SeedTime(w) == Minus(Minus(w.now, PING_AFTER_MILLISECONDS), 1)

\* Lines 864-879 of bootstrapPeer: the Peer is allocated, put into the map
\* under its lladdr and given its free jobs.
BootstrapAllocate(w, ifn, p, key, lladdr) ==
    [w EXCEPT !.peerMap[ifn] = Map_put(@, lladdr, p),
              !.peers[p] = [NoPeer EXCEPT
                  !.status = "live", !.ici = ifn, !.lladdr = lladdr,
                  !.key = key, !.caKey = key,
                  !.handle = LET m == Map_put(w.peerMap[ifn], lladdr, p) IN
                             m[Map_indexForKey(m, lladdr) + 1].handle,
                  !.isIncomingConnection = FALSE],
              !.scopeJobs = @ \cup {p}]

\* Lines 898-904 without the Allocator_free of line 900.
BootstrapAddFailed_NoFree(w, p, addRet) ==
    [w EXCEPT !.ret = IF addRet = SwitchCore_addInterface_OUT_OF_SPACE
                      THEN bootstrapPeer_OUT_OF_SPACE
                      ELSE bootstrapPeer_INTERNAL]
\* Lines 898-904 of bootstrapPeer: the switch refused the interface.
BootstrapAddFailed(w, p, addRet) ==
    [Allocator_free(w, p) EXCEPT
        !.ret = IF addRet = SwitchCore_addInterface_OUT_OF_SPACE
                THEN bootstrapPeer_OUT_OF_SPACE
                ELSE bootstrapPeer_INTERNAL]

\* The key check of bootstrapPeer, lines 856-862.
BootstrapBadKey(key) ==
    ~AddressCalc_validAddress(key) \/ key = LocalKey

\* IfController_bootstrapPeer.  interfaceNumber is the 0-based ifNum.
IfController_bootstrapPeer(w, interfaceNumber, key, password, lladdr, fault, ub) ==
    LET ifn == interfaceNumber + 1 IN
    IF ~(ifn \in 1 .. Len(w.icis)) THEN [w EXCEPT !.ret = bootstrapPeer_BAD_IFNUM]
    ELSE IF TouchIface(w, ifn, ub).aborted THEN Abort(w)
    ELSE IF BootstrapBadKey(key) THEN [w EXCEPT !.ret = bootstrapPeer_BAD_KEY]
    ELSE LET p == NewPeerId(w) IN
         IF p = 0 THEN [w EXCEPT !.overflow = TRUE]
         ELSE LET w1 == CryptoAuth_setAuth(
                            BootstrapAllocate(w, ifn, p, key, lladdr), p, password)
                  w2 == SwitchCore_addInterface(w1, p, fault)
              IN
              IF w2.ret # 0 THEN BootstrapAddFailed(w2, p, w2.ret)
              ELSE [sendPing([w2 EXCEPT !.peers[p].timeOfLastMessage = SeedTime(w)],
                             p)
                    EXCEPT !.ret = 0]

(* ------------------------------ beacons ------------------------------ *)
\* A beacon frame: its size (runt: the whole frame is shorter than a beacon;
\* short: the frame is long enough but what follows the lladdr is not; full),
\* the public key and the version it announces.
BeaconMsgs ==
    [size : {"runt", "short"}, key : {"k1"}, version : {"cur"}, password : {"pw1"}]
    \cup [size : {"full"}, key : Keys, version : Versions, password : Passwords]

\* Lines 582-587 of handleBeacon: the lladdr of the beacon is mapped to a
\* Peer already, which gets the beacon's password.
BeaconFromKnown_Announce(w, p, b) ==
    sendPeer(CryptoAuth_setAuth(w, p, b.password), AllPathfinders, "PEER", p)
BeaconFromKnown(w, p, b) == CryptoAuth_setAuth(w, p, b.password)

\* handleBeacon.
handleBeacon(w, ifn, lladdr, b, fault) ==
    IF w.icis[ifn].beaconState = beaconState_newState_OFF THEN w
    ELSE IF b.size = "runt" THEN w
    ELSE IF b.size = "short" THEN Abort(w)
    ELSE IF ~AddressCalc_validAddress(b.key) \/ b.key = LocalKey THEN w
    ELSE IF ~Version_isCompatible(b.version) THEN w
    ELSE IF Map_indexForKey(w.peerMap[ifn], lladdr) > -1
    THEN BeaconFromKnown(
            w, w.peerMap[ifn][Map_indexForKey(w.peerMap[ifn], lladdr) + 1].value, b)
    ELSE LET p == NewPeerId(w) IN
         IF p = 0 THEN [w EXCEPT !.overflow = TRUE]
         ELSE LET w1 == [w EXCEPT
                      !.peerMap[ifn] = Map_put(@, lladdr, p),
                      !.peers[p] = [NoPeer EXCEPT
                          !.status = "live", !.ici = ifn, !.lladdr = lladdr,
                          !.key = b.key, !.caKey = b.key, !.version = b.version,
                          !.handle = p, !.isIncomingConnection = TRUE,
                          !.auth = b.password],
                      !.authed = Append(@, p)]
                  w2 == SwitchCore_addInterface(w1, p, fault)
              IN
              IF w2.ret # 0 THEN [Allocator_free(w2, p) EXCEPT !.ret = 0]
              ELSE sendPeer([w2 EXCEPT !.peers[p].timeOfLastMessage = SeedTime(w)],
                            AllPathfinders, "PEER", p)

(* ----------------------- unknown-source frames ----------------------- *)
\* Lines 682-686 of handleUnexpectedIncoming: the switch refused.
UnexpectedAddFailed(w, p) == [Allocator_free(w, p) EXCEPT !.ret = 0]

\* handleUnexpectedIncoming.
handleUnexpectedIncoming(w, ifn, lladdr, f, fault) ==
    LET p == NewPeerId(w) IN
    IF p = 0 THEN [w EXCEPT !.overflow = TRUE]
    ELSE IF ~(Map_indexForKey(w.peerMap[ifn], lladdr) = -1) THEN Abort(w)
    ELSE LET w1 == [w EXCEPT
                 !.peerMap[ifn] = Map_put(@, lladdr, p),
                 !.peers[p] = [NoPeer EXCEPT
                     !.status = "live", !.ici = ifn, !.lladdr = lladdr,
                     !.handle = p,
                     !.state = IfController_PeerState_UNAUTHENTICATED,
                     !.isIncomingConnection = TRUE]]
             w2 == SwitchCore_addInterface(w1, p, fault)
         IN
         IF w2.ret # 0 THEN UnexpectedAddFailed(w2, p)
         ELSE LET w3 == SessionReceive(
                           [w2 EXCEPT !.peers[p].timeOfLastMessage = SeedTime(w)],
                           p, f)
              IN IF w3.ret # 0 /\ ~w3.aborted
                 THEN [Allocator_free(w3, p) EXCEPT !.ret = 0]
                 ELSE [w3 EXCEPT !.ret = 0]

\* A message from the transport: a runt, a beacon (the lladdr's broadcast
\* flag is set) or a frame of a session.
WireMsgs ==
    [kind : {"runt"}, lladdr : {"A"}, beacon : {[size |-> "runt", key |-> "k1", version |-> "cur", password |-> "pw1"]},
     frame : {CHOOSE f \in Frames : f.reject}]
    \cup
    [kind : {"bcast"}, lladdr : LLAddrs, beacon : BeaconMsgs,
     frame : {CHOOSE f \in Frames : f.reject}]
    \cup
    [kind : {"frame"}, lladdr : LLAddrs,
     beacon : {[size |-> "runt", key |-> "k1", version |-> "cur", password |-> "pw1"]}, frame : Frames]

\* handleIncomingFromWire with a test of the beacon state ahead of line 731:
\* a frame from an unknown lladdr is dropped while the state is OFF.
handleIncomingFromWire_AcceptOnly(w, ifn, msg, fault) ==
    IF msg.kind = "runt" THEN w
    ELSE IF msg.kind = "bcast" THEN handleBeacon(w, ifn, msg.lladdr, msg.beacon, fault)
    ELSE LET epIndex == Map_indexForKey(w.peerMap[ifn], msg.lladdr) IN
         IF epIndex = -1
         THEN IF w.icis[ifn].beaconState = beaconState_newState_OFF THEN w
              ELSE handleUnexpectedIncoming(w, ifn, msg.lladdr, msg.frame, fault)
         ELSE [SessionReceive(w, w.peerMap[ifn][epIndex + 1].value, msg.frame)
               EXCEPT !.ret = 0]

\* handleIncomingFromWire.
handleIncomingFromWire(w, ifn, msg, fault) ==
    IF msg.kind = "runt" THEN w
    ELSE IF msg.kind = "bcast" THEN handleBeacon(w, ifn, msg.lladdr, msg.beacon, fault)
    ELSE LET epIndex == Map_indexForKey(w.peerMap[ifn], msg.lladdr) IN
         IF epIndex = -1
         THEN handleUnexpectedIncoming(w, ifn, msg.lladdr, msg.frame, fault)
         ELSE [SessionReceive(w, w.peerMap[ifn][epIndex + 1].value, msg.frame)
               EXCEPT !.ret = 0]


(* ------------------------- beacon sending ---------------------------- *)
\* sendBeacon with the test of line 769 against ACCEPT: an interface that
\* only accepts beacons sends them too.
sendBeacon_FromAccept(w, ifn) ==
    IF w.icis[ifn].beaconState < beaconState_newState_ACCEPT THEN w
    ELSE [w EXCEPT !.beacons = Append(@, ifn)]

\* sendBeacon: one beacon on an interface in state SEND.
sendBeacon(w, ifn) ==
    IF w.icis[ifn].beaconState < beaconState_newState_SEND THEN w
    ELSE [w EXCEPT !.beacons = Append(@, ifn)]

\* beaconInterval: sendBeacon for every interface, in order.
RECURSIVE beaconIntervalFrom(_, _, _)
beaconIntervalFrom(w, ifn, ub) ==
    IF ifn > Len(w.icis) \/ w.aborted THEN w
    ELSE LET w1 == TouchIface(w, ifn, ub) IN
         IF w1.aborted THEN w1
         ELSE beaconIntervalFrom(sendBeacon(w1, ifn), ifn + 1, ub)

beaconInterval(w, ub) == beaconIntervalFrom(w, 1, ub)

\* The states IfController_beaconState accepts.
BeaconStates == {beaconState_newState_OFF, beaconState_newState_ACCEPT,
                 beaconState_newState_SEND}

\* Lines 825-831: the new state is stored, SEND sends a beacon right away.
SetBeaconState(w, ifn, newState) ==
    LET w1 == [w EXCEPT !.icis[ifn].beaconState = newState] IN
    IF newState = beaconState_newState_SEND THEN sendBeacon(w1, ifn) ELSE w1

\* IfController_beaconState with the assignment of line 825 ahead of the
\* switch of lines 818-823.
IfController_beaconState_StoreFirst(w, interfaceNumber, newState, ub) ==
    LET ifn == interfaceNumber + 1 IN
    IF ~(ifn \in 1 .. Len(w.icis)) THEN [w EXCEPT !.ret = beaconState_NO_SUCH_IFACE]
    ELSE IF TouchIface(w, ifn, ub).aborted THEN Abort(w)
    ELSE IF newState \notin BeaconStates
    THEN [w EXCEPT !.icis[ifn].beaconState = newState,
                   !.ret = beaconState_INVALID_STATE]
    ELSE [SetBeaconState(w, ifn, newState) EXCEPT !.ret = 0]
\* IfController_beaconState.
IfController_beaconState(w, interfaceNumber, newState, ub) ==
    LET ifn == interfaceNumber + 1 IN
    IF ~(ifn \in 1 .. Len(w.icis)) THEN [w EXCEPT !.ret = beaconState_NO_SUCH_IFACE]
    ELSE IF TouchIface(w, ifn, ub).aborted THEN Abort(w)
    ELSE IF newState \notin BeaconStates
    THEN [w EXCEPT !.ret = beaconState_INVALID_STATE]
    ELSE [SetBeaconState(w, ifn, newState) EXCEPT !.ret = 0]

(* --------------------------- disconnect ------------------------------ *)
\* IfController_disconnectPeer: the first Peer, by interface and map order,
\* whose session has the key is freed.
RECURSIVE disconnectFrom(_, _, _, _, _)
disconnectFrom(w, key, j, i, ub) ==
    IF j > Len(w.icis) THEN [w EXCEPT !.ret = disconnectPeer_NOTFOUND]
    ELSE IF TouchIface(w, j, ub).aborted THEN Abort(w)
    ELSE IF ~(i < Len(w.peerMap[j])) THEN disconnectFrom(w, key, j + 1, 0, ub)
    ELSE LET peer == w.peerMap[j][i + 1].value IN
         IF w.peers[peer].caKey = key
         THEN [Allocator_free(w, peer) EXCEPT !.ret = 0]
         ELSE disconnectFrom(w, key, j, i + 1, ub)

IfController_disconnectPeer(w, key, ub) == disconnectFrom(w, key, 1, 0, ub)

(* ---------------------------- event bus ------------------------------ *)
\* incomingFromEventEmitterIf: a PEER event to the asking pathfinder for
\* every Peer in state ESTABLISHED, by interface and map order.
RECURSIVE enumerateFrom(_, _, _, _, _)
enumerateFrom(w, pathfinderId, j, i, ub) ==
    IF j > Len(w.icis) \/ w.aborted THEN w
    ELSE IF TouchIface(w, j, ub).aborted THEN Abort(w)
    ELSE IF ~(i < Len(w.peerMap[j])) THEN enumerateFrom(w, pathfinderId, j + 1, 0, ub)
    ELSE LET peer == w.peerMap[j][i + 1].value IN
         IF w.peers[peer].state # IfController_PeerState_ESTABLISHED
         THEN enumerateFrom(w, pathfinderId, j, i + 1, ub)
         ELSE enumerateFrom(sendPeer(w, pathfinderId, "PEER", peer),
                            pathfinderId, j, i + 1, ub)

incomingFromEventEmitterIf(w, pathfinderId, ub) ==
    enumerateFrom(w, pathfinderId, 1, 0, ub)

(* ------------------------ outbound data path ------------------------- *)
\* What the session and the transport below it return for a message.
SessionRets == {Error_NONE, Error_UNDELIVERABLE, Error_LINK_LIMIT_EXCEEDED}

\* Lines 459-469: the message, or its clone for a peer that is silent for
\* longer than unresponsiveAfter, goes to the session.
Interface_sendMessage(w, p) == [w EXCEPT !.encrypted = Append(@, p)]

\* Lines 479-480 returning UNDELIVERABLE for every error of a silent peer.
SwitchRet_AlwaysUndeliverable(r, silent) ==
    IF r # 0 \/ silent THEN Error_UNDELIVERABLE ELSE Error_NONE

\* Lines 479-488: what the switch gets, from the session's result r (an
\* UNDELIVERABLE already made 0) and whether the peer is silent.
SwitchRet(r, silent) ==
    IF r # 0 \/ silent
    THEN (IF r # 0 THEN r ELSE Error_UNDELIVERABLE)
    ELSE Error_NONE

\* Line 459: the peer is silent for longer than unresponsiveAfter.
Silent(w, p) ==
    Minus(w.now, w.peers[p].timeOfLastMessage) > UNRESPONSIVE_AFTER_MILLISECONDS

\* sendFromSwitch: sessRet is what the session and the transport return for
\* the message.  An UNDELIVERABLE from below becomes 0; a peer silent for
\* longer than unresponsiveAfter gets UNDELIVERABLE.
sendFromSwitch(w, p, sessRet) ==
    LET r == IF sessRet = Error_UNDELIVERABLE THEN 0 ELSE sessRet IN
    [Interface_sendMessage(w, p) EXCEPT !.ret = SwitchRet(r, Silent(w, p))]

(* --------------------------- interfaces ------------------------------ *)
\* IfController_newIface: a new interface at the end of ic->icis, beacons
\* off, no peers.
IfController_newIface(w) ==
    [w EXCEPT !.icis = Append(@, [beaconState |-> beaconState_newState_OFF,
                                    released |-> FALSE]),
              !.peerMap = Append(@, <<>>),
              !.ret = Len(w.icis)]

\* The scope given to newIface is released: the allocators of the
\* interface's Peers are its children and are freed, the latest first.
\* Nothing takes the interface out of ic->icis.
RECURSIVE freePeersOf(_, _, _)
freePeersOf(w, ifn, p) ==
    IF p = 0 \/ w.aborted THEN w
    ELSE IF Live(w, p) /\ w.peers[p].ici = ifn
    THEN freePeersOf(Allocator_free(w, p), ifn, p - 1)
    ELSE freePeersOf(w, ifn, p - 1)

releaseIface(w, ifn) ==
    [freePeersOf(w, ifn, MaxPeers) EXCEPT !.icis[ifn].released = TRUE]


(* ------------------------------ actions ------------------------------ *)
StartTimes == {0}

\* The inputs of a behaviour: every address, key and switch fault, or one
\* neighbour and a switch that fails only when it is full.
InKeys == IF narrow THEN {"k1"} ELSE Keys
InLLAddrs == IF narrow THEN {"A"} ELSE LLAddrs
InFaults == IF narrow THEN {0} ELSE SwitchFaults
InPasswords == IF narrow THEN {"pw1"} ELSE Passwords
StepBudget == IF narrow THEN MaxStepsNarrow ELSE MaxSteps

\* What reading released memory can do matters only once an interface has
\* been released.
UbChoices == IF \E i \in 1 .. Len(icis) : icis[i].released THEN BOOLEAN ELSE {FALSE}

Init ==
    /\ now \in StartTimes
    /\ advances = 0
    /\ steps = 0
    /\ idle = FALSE
    /\ narrow \in BOOLEAN
    /\ icis = <<>>
    /\ peerMap = <<>>
    /\ peers = [p \in PeerIds |-> NoPeer]
    /\ slots = [l \in Labels |-> 0]
    /\ scopeJobs = {}
    /\ pings = [p \in PeerIds |-> 0]
    /\ aborted = FALSE
    /\ op = "new"
    /\ ret = 0
    /\ events = <<>>
    /\ pinged = <<>>
    /\ authed = <<>>
    /\ beacons = <<>>
    /\ forwarded = <<>>
    /\ encrypted = <<>>

\* The controller's state is as the handler found it.
Unchanged(w) ==
    /\ ~w.aborted
    /\ w.icis = icis
    /\ w.peerMap = peerMap
    /\ w.peers = peers
    /\ w.slots = slots
    /\ w.scopeJobs = scopeJobs
    /\ w.pings = pings

\* The process is alive and the behaviour has handlers left to run.
Running == ~aborted /\ ~idle /\ steps < StepBudget

\* A handler has run from World to w: its result becomes the next state.
\* A handler that aborted leaves the process dead: what it had published
\* stays published, nothing else of the state is used again.  A behaviour
\* ends with the first handler that leaves the state as it was: what can
\* follow it is what can follow the state it started from.
Commit(name, w) ==
    /\ Running
    /\ ~w.overflow
    /\ steps' = steps + 1
    /\ idle' = Unchanged(w)
    /\ op' = name
    /\ aborted' = w.aborted
    /\ events' = w.events
    /\ UNCHANGED <<now, advances, narrow>>
    /\ IF w.aborted
       THEN /\ ret' = 0
            /\ pinged' = <<>>
            /\ authed' = <<>>
            /\ beacons' = <<>>
            /\ forwarded' = <<>>
            /\ encrypted' = <<>>
            /\ UNCHANGED <<icis, peerMap, peers, slots, scopeJobs, pings>>
       ELSE /\ ret' = w.ret
            /\ pinged' = w.pinged
            /\ authed' = w.authed
            /\ beacons' = w.beacons
            /\ forwarded' = w.forwarded
            /\ encrypted' = w.encrypted
            /\ icis' = w.icis
            /\ peerMap' = w.peerMap
            /\ peers' = w.peers
            /\ slots' = w.slots
            /\ scopeJobs' = w.scopeJobs
            /\ pings' = w.pings

\* Time passes between two handlers.
Advance ==
    /\ ~aborted
    /\ ~idle
    /\ advances < MaxAdvances
    /\ \E d \in Deltas :
         /\ now + d < Word
         /\ now' = now + d
    /\ advances' = advances + 1
    /\ op' = "advance"
    /\ ret' = 0
    /\ events' = <<>>
    /\ pinged' = <<>>
    /\ authed' = <<>>
    /\ beacons' = <<>>
    /\ forwarded' = <<>>
    /\ encrypted' = <<>>
    /\ UNCHANGED <<steps, idle, narrow, icis, peerMap, peers, slots, scopeJobs,
                   pings, aborted>>

NewIface ==
    /\ Running
    /\ Len(icis) < MaxIfaces
    /\ Commit("newIface", IfController_newIface(World))

ReleaseIface ==
    Running /\ \E ifn \in 1 .. Len(icis) :
        /\ ~icis[ifn].released
        /\ Commit("releaseIface", releaseIface(World, ifn))

BootstrapPeer ==
    Running /\ \E n \in 0 .. Len(icis), key \in InKeys \ {ZeroKey}, lladdr \in InLLAddrs,
       password \in InPasswords, fault \in InFaults, ub \in UbChoices :
        Commit("bootstrapPeer",
               IfController_bootstrapPeer(World, n, key, password, lladdr, fault, ub))

\* The caller of bootstrapPeer releases the scope it passed.
ReleaseScope ==
    Running /\ \E p \in scopeJobs, outcome \in DoubleFreeOutcomes :
        Commit("releaseScope",
               [freeAlloc(World, p, outcome) EXCEPT !.scopeJobs = @ \ {p}])

BeaconState ==
    Running /\ \E n \in 0 .. Len(icis), newState \in 0 .. 3, ub \in UbChoices :
        Commit("beaconState", IfController_beaconState(World, n, newState, ub))

DisconnectPeer ==
    Running /\ \E key \in InKeys, ub \in UbChoices :
        Commit("disconnectPeer", IfController_disconnectPeer(World, key, ub))

\* The peer the frame of a message is for: the one its lladdr is mapped to,
\* or a session that is yet to be made.
FrameAllowed(ifn, msg) ==
    LET i == Map_indexForKey(peerMap[ifn], msg.lladdr) IN
    msg.kind = "frame" =>
        /\ SessionAllows(IF i = -1 THEN NoPeer ELSE peers[peerMap[ifn][i + 1].value],
                         msg.frame)
        \* the switch's answer is read for the first frame of a new peer only
        /\ (i # -1 => msg.frame.swRet = Error_NONE)
        \* the switch header is read before the session is established only
        /\ (msg.frame.caState = CryptoAuth_ESTABLISHED => msg.frame.hdrOk)

IncomingFromWire ==
    Running /\ \E ifn \in 1 .. Len(icis), msg \in WireMsgs, fault \in InFaults :
        /\ ~icis[ifn].released
        \* the switch is asked only when a Peer is made
        /\ (fault # 0 => /\ msg.kind # "runt"
                          /\ Map_indexForKey(peerMap[ifn], msg.lladdr) = -1)
        /\ msg.kind # "runt" => msg.lladdr \in InLLAddrs
        /\ msg.kind = "bcast" => /\ msg.beacon.key \in InKeys
                                 /\ msg.beacon.password \in InPasswords
        /\ msg.kind = "frame" => msg.frame.key \in InKeys
        /\ FrameAllowed(ifn, msg)
        /\ Commit("incomingFromWire", handleIncomingFromWire(World, ifn, msg, fault))

PingTick ==
    Running /\ \E starts \in [1 .. MaxIfaces -> 0 .. (MaxPeers - 1)], ub \in UbChoices :
        Commit("pingCallback", pingCallback(World, starts, ub))

BeaconTick ==
    Running /\ \E ub \in UbChoices : Commit("beaconInterval", beaconInterval(World, ub))

PingResponse ==
    Running /\ \E p \in PeerIds, res \in PingResults, version \in Versions,
                 label \in Labels :
        /\ pings[p] > 0
        /\ Commit("onPingResponse",
                  [onPingResponse(World, p, res, version, label)
                   EXCEPT !.pings[p] = @ - 1])

SendFromSwitch ==
    Running /\ \E p \in PeerIds, sessRet \in SessionRets :
        /\ peers[p].status = "live"
        /\ \E l \in Labels : slots[l] = p
        /\ Commit("sendFromSwitch", sendFromSwitch(World, p, sessRet))

EnumeratePeers ==
    Running /\ \E pf \in Pathfinders, ub \in UbChoices :
        Commit("enumerate", incomingFromEventEmitterIf(World, pf, ub))

Next ==
    \/ Advance
    \/ NewIface
    \/ ReleaseIface
    \/ BootstrapPeer
    \/ ReleaseScope
    \/ BeaconState
    \/ DisconnectPeer
    \/ IncomingFromWire
    \/ PingTick
    \/ BeaconTick
    \/ PingResponse
    \/ SendFromSwitch
    \/ EnumeratePeers

Spec == Init /\ [][Next]_vars


(* ----------------------------- properties ---------------------------- *)
\* PEER_GONE events about peer p in a sequence of published events.
GoneCount(evs, p) ==
    Cardinality({i \in 1 .. Len(evs) : evs[i].ev = "PEER_GONE" /\ evs[i].peer = p})

\* Peer p is the value of an entry of its interface's map.
InMap(pm, ps, p) ==
    /\ ps[p].ici \in 1 .. Len(pm)
    /\ \E i \in 1 .. Len(pm[ps[p].ici]) : pm[ps[p].ici][i].value = p

\* Switch slots peer p is registered in.
Registrations(p) == {l \in Labels : slots[l] = p}

\* C1: every handler that destroys a Peer publishes exactly one PEER_GONE
\* event for it, whatever the cause of the destruction.
C1_OneGonePerDestruction ==
    [][\A p \in PeerIds :
          (peers[p].status # "freed" /\ peers'[p].status = "freed")
              => GoneCount(events', p) = 1]_vars

\* C2: no interface has two live Peers with the same lladdr.
C2_UniqueLladdr ==
    \A p, q \in PeerIds :
        (/\ p # q
         /\ peers[p].status = "live"
         /\ peers[q].status = "live"
         /\ peers[p].ici = peers[q].ici)
            => peers[p].lladdr # peers[q].lladdr

\* C3: between handlers every live Peer is registered in exactly one switch
\* slot and every other Peer in none.
C3_OneRegistration ==
    \A p \in PeerIds :
        IF peers[p].status = "live"
        THEN Cardinality(Registrations(p)) = 1
        ELSE Registrations(p) = {}

\* C3 witness: a frame has established a Peer and the relocation has freed
\* the other Peer with its key; the survivor holds one slot.
C3_Witness_Relocated ==
    /\ op = "incomingFromWire"
    /\ ~aborted
    /\ \E p, q \in PeerIds :
          /\ peers[q].status = "freed"
          /\ GoneCount(events, q) = 1
          /\ peers[p].status = "live"
          /\ peers[p].state = IfController_PeerState_ESTABLISHED
          /\ Cardinality(Registrations(p)) = 1
          /\ \E i \in 1 .. Len(events) :
                events[i].ev = "PEER" /\ events[i].peer = p

\* C4: on every interface at most one Peer with a given public key is in
\* state ESTABLISHED.
C4_OneEstablishedPerKey ==
    \A p, q \in PeerIds :
        (/\ p # q
         /\ peers[p].status = "live"
         /\ peers[q].status = "live"
         /\ peers[p].ici = peers[q].ici
         /\ peers[p].state = IfController_PeerState_ESTABLISHED
         /\ peers[q].state = IfController_PeerState_ESTABLISHED)
            => peers[p].key # peers[q].key

\* C5: when a handler brings a Peer to ESTABLISHED while another live Peer
\* of the interface has its public key, that other Peer is destroyed by the
\* same handler and the established Peer has the path the other one had.
C5_Relocation ==
    [][\A p, q \in PeerIds :
          (/\ p # q
           /\ peers[p].state # IfController_PeerState_ESTABLISHED
           /\ peers'[p].status = "live"
           /\ peers'[p].state = IfController_PeerState_ESTABLISHED
           /\ peers[q].status = "live"
           /\ peers[q].ici = peers'[p].ici
           /\ peers[q].key = peers'[p].key)
              => /\ peers'[q].status = "freed"
                 /\ peers'[p].path = peers[q].path]_vars

\* C6: a handler publishes PEER_GONE for a Peer that is alive before and
\* after it exactly when it takes the Peer from ESTABLISHED to UNRESPONSIVE,
\* and then once.
C6_GoneOnlyOnTransition ==
    [][\A p \in PeerIds :
          (peers[p].status = "live" /\ peers'[p].status = "live")
              => GoneCount(events', p) =
                    IF /\ peers[p].state = IfController_PeerState_ESTABLISHED
                       /\ peers'[p].state = IfController_PeerState_UNRESPONSIVE
                    THEN 1 ELSE 0]_vars

\* An admin call has returned one of its validation errors.
ValidationError(o, r) ==
    \/ o = "bootstrapPeer" /\ r \in {bootstrapPeer_BAD_IFNUM, bootstrapPeer_BAD_KEY}
    \/ o = "beaconState" /\ r \in {beaconState_NO_SUCH_IFACE, beaconState_INVALID_STATE}
    \/ o = "disconnectPeer" /\ r = disconnectPeer_NOTFOUND

\* C7: an admin call that returns a validation error leaves the interfaces,
\* the maps, the Peers and the switch as they were, sends no ping and no
\* beacon and publishes no event.
C7_ValidationErrorNoEffect ==
    [][(~aborted' /\ ValidationError(op', ret'))
          => /\ UNCHANGED <<icis, peerMap, peers, slots, scopeJobs, pings>>
             /\ events' = <<>>
             /\ pinged' = <<>>
             /\ beacons' = <<>>]_vars

\* C7 witness: beaconState has refused a state on an interface that has a
\* Peer.
C7_Witness_InvalidState ==
    /\ op = "beaconState"
    /\ ret = beaconState_INVALID_STATE
    /\ ~aborted
    /\ \E p \in PeerIds : peers[p].status = "live"

\* C8: a bootstrapPeer that returns OUT_OF_SPACE or INTERNAL has created no
\* Peer: the maps are as before, no ping was sent, no event was published.
C8_FailedBootstrapNoEffect ==
    [][(/\ ~aborted'
        /\ op' = "bootstrapPeer"
        /\ ret' \in {bootstrapPeer_OUT_OF_SPACE, bootstrapPeer_INTERNAL})
          => /\ peerMap' = peerMap
             /\ \A p \in PeerIds : peers'[p].status = "live" => peers[p].status = "live"
             /\ pinged' = <<>>
             /\ events' = <<>>]_vars

\* C9: releasing the scope of a bootstrapped Peer that is alive destroys
\* it: it is out of its map and out of the switch, and PEER_GONE is
\* published for it.  (Every Peer whose scope can be released is alive.)
C9_ScopeReleaseDestroys ==
    [][(/\ op' = "releaseScope"
        /\ \A p \in scopeJobs : peers[p].status = "live")
          => /\ ~aborted'
             /\ \E p \in scopeJobs \ scopeJobs' :
                   /\ peers'[p].status = "freed"
                   /\ ~InMap(peerMap', peers, p)
                   /\ \A l \in Labels : slots'[l] # p
                   /\ GoneCount(events', p) = 1]_vars

\* C10: the ping tick destroys no outgoing Peer and leaves it in its map.
C10_TickKeepsOutgoing ==
    [][op' = "pingCallback"
          => \A p \in PeerIds :
                (/\ peers[p].status = "live"
                 /\ ~peers[p].isIncomingConnection
                 /\ InMap(peerMap, peers, p))
                    => /\ peers'[p].status = "live"
                       /\ InMap(peerMap', peers', p)]_vars

\* C10 witness: a ping tick has run over an outgoing Peer that was silent
\* for longer than forgetAfter, and the Peer is there.
C10_Witness_SilentOutgoing ==
    /\ op = "pingCallback"
    /\ ~aborted
    /\ \E p \in PeerIds :
          /\ peers[p].status = "live"
          /\ ~peers[p].isIncomingConnection
          /\ InMap(peerMap, peers, p)
          /\ now > Plus(peers[p].timeOfLastMessage, FORGET_AFTER_MILLISECONDS)
          /\ GoneCount(events, p) = 1

\* An incoming Peer that is the one entry of its interface's map.
SoleIncoming(p) ==
    /\ peers[p].status = "live"
    /\ peers[p].isIncomingConnection
    /\ InMap(peerMap, peers, p)
    /\ Len(peerMap[peers[p].ici]) = 1

Destroyed(w, p) ==
    /\ w.peers[p].status = "freed"
    /\ \A i \in 1 .. Len(w.peerMap) : \A j \in 1 .. Len(w.peerMap[i]) :
          w.peerMap[i][j].value # p
    /\ \A l \in Labels : w.slots[l] # p

\* The live Peers whose public key is k.
Holders(k) == {p \in PeerIds : peers[p].status = "live" /\ peers[p].key = k}

\* C12: in every state, disconnectPeer(key) returns 0 exactly when a live
\* Peer has the key; it then destroys one Peer with that key, publishes
\* PEER_GONE for it and leaves every other Peer as it was.
C12_DisconnectByKey ==
    \A k \in RemoteKeys :
        LET w == IfController_disconnectPeer(World, k, FALSE) IN
        ~aborted =>
            /\ (w.ret = 0) <=> (Holders(k) # {})
            /\ w.ret = 0 =>
                  /\ ~w.aborted
                  /\ \E p \in Holders(k) :
                        /\ Destroyed(w, p)
                        /\ GoneCount(w.events, p) = 1
                        /\ \A q \in PeerIds \ {p} : w.peers[q] = peers[q]

\* The number of beacons of the sequence bs that went out on interface ifn.
BeaconCount(bs, ifn) == Cardinality({i \in 1 .. Len(bs) : bs[i] = ifn})

\* C13: in every state, a beacon tick sends exactly one beacon on every
\* interface in state SEND and none on an interface in state OFF or ACCEPT,
\* and an accepted IfController_beaconState call sends exactly one beacon,
\* on its interface, when the new state is SEND and none otherwise.
C13_BeaconPerSendIface ==
    ~aborted => \A ub \in UbChoices :
        /\ LET t == beaconInterval(World, ub) IN
           ~t.aborted =>
               \A ifn \in 1 .. Len(icis) :
                   BeaconCount(t.beacons, ifn) =
                       IF icis[ifn].beaconState = beaconState_newState_SEND
                       THEN 1 ELSE 0
        /\ \A n \in 0 .. Len(icis) - 1 : \A s \in BeaconStates :
              LET b == IfController_beaconState(World, n, s, ub) IN
              ~b.aborted =>
                  /\ b.ret = 0
                  /\ b.icis[n + 1].beaconState = s
                  /\ b.beacons = IF s = beaconState_newState_SEND
                                 THEN <<n + 1>> ELSE <<>>

C13_Witness_TickAfterSend ==
    /\ op = "beaconInterval" /\ ~aborted
    /\ \E ifn \in 1 .. Len(icis) :
          /\ icis[ifn].beaconState = beaconState_newState_SEND
          /\ beacons = <<ifn>>

\* The broadcast frames that C14 says are dropped on interface ifn.
DroppedBeacon(ifn, b) ==
    \/ icis[ifn].beaconState = beaconState_newState_OFF
    \/ b.size # "full"
    \/ b.key = LocalKey
    \/ ~AddressCalc_validAddress(b.key)
    \/ ~Version_isCompatible(b.version)

\* C14: in every state, a broadcast frame that arrives while the interface's
\* beacon state is OFF, or whose payload after the lladdr is shorter than a
\* beacon, or that carries the local key, a key whose address does not start
\* with 0xfc or an incompatible version changes nothing: no Peer, no
\* password, no event, no abort.
C14_BadBeaconDropped ==
    ~aborted =>
        \A ifn \in 1 .. Len(icis) : \A msg \in WireMsgs :
            (/\ ~icis[ifn].released
             /\ msg.kind = "bcast"
             /\ DroppedBeacon(ifn, msg.beacon))
                => handleIncomingFromWire(World, ifn, msg, 0) = World

\* C15: in every state, a valid beacon from an lladdr that is mapped to a
\* Peer only sets that Peer's session password: no Peer is created, no event
\* is published and nothing else changes; the same beacon once more sets the
\* password again and still changes nothing else.
C15_BeaconFromKnownSetsAuth ==
    ~aborted =>
        \A ifn \in 1 .. Len(icis) : \A msg \in WireMsgs :
            (/\ ~icis[ifn].released
             /\ msg.kind = "bcast"
             /\ ~DroppedBeacon(ifn, msg.beacon)
             /\ Map_indexForKey(peerMap[ifn], msg.lladdr) > -1)
                => LET p == peerMap[ifn][Map_indexForKey(peerMap[ifn], msg.lladdr) + 1].value
                       w1 == handleIncomingFromWire(World, ifn, msg, 0)
                       w2 == handleIncomingFromWire(w1, ifn, msg, 0)
                   IN /\ w1 = [World EXCEPT !.peers[p].auth = msg.beacon.password,
                                            !.authed = <<p>>]
                      /\ w2 = [w1 EXCEPT !.authed = <<p, p>>]

C15_Witness_PasswordChanged ==
    /\ op = "incomingFromWire" /\ ~aborted
    /\ events = <<>>
    /\ \E p \in PeerIds :
          /\ authed = <<p>>
          /\ peers[p].status = "live"
          /\ peers[p].auth = "pw2"
          /\ ~peers[p].isIncomingConnection

\* C16: a Peer that is created by a step and is alive after it has
\* timeOfLastMessage <= now - pingAfter - 1, whatever the clock shows, and a
\* ping tick at that moment finds it lazy: neither recently seen, nor to be
\* forgotten, nor unresponsive.
C16_SeededAsLazy ==
    [][~aborted' =>
          \A p \in PeerIds :
              (peers[p].status = "unused" /\ peers'[p].status = "live")
                  => /\ peers'[p].timeOfLastMessage
                            <= now' - PING_AFTER_MILLISECONDS - 1
                     /\ ~RecentlySeen([now |-> now'], peers'[p])
                     /\ ~ForgetCond([now |-> now'], peers'[p])
                     /\ ~Unresponsive([now |-> now'], peers'[p])]_vars

\* Peer p is made by the step and is alive after it.
Created(p) == peers[p].status = "unused" /\ peers'[p].status = "live"

\* C17 as claimed: a Peer is made only by bootstrapPeer or by a message from
\* the wire on an interface whose beacon state is ACCEPT or SEND; on an
\* interface in state OFF a message from the wire makes no Peer.
C17_CreatedOnlyWhenAccepting ==
    [][~aborted' =>
          \A p \in PeerIds :
              Created(p) =>
                  \/ op' = "bootstrapPeer"
                  \/ /\ op' = "incomingFromWire"
                     /\ icis[peers'[p].ici].beaconState
                            # beaconState_newState_OFF]_vars

\* A frame from an unknown lladdr makes a Peer in every beacon state of the
\* interface: the handler allocates the next Peer.
UnknownFrameAllocates ==
    (~aborted /\ NewPeerId(World) # 0) =>
        \A ifn \in 1 .. Len(icis) : \A lladdr \in LLAddrs :
            (~icis[ifn].released /\ Map_indexForKey(peerMap[ifn], lladdr) = -1)
                => \A f \in Frames :
                      handleIncomingFromWire(
                          World, ifn,
                          [kind |-> "frame", lladdr |-> lladdr, frame |-> f], 0)
                          .peers[NewPeerId(World)].status # "unused"

\* C17 amended: a Peer is made only by bootstrapPeer or by a message from the
\* wire; one made from a beacon (it has the beacon's password) is on an
\* interface whose beacon state is ACCEPT or SEND; and a frame from an
\* unknown lladdr makes a Peer whatever the beacon state of the interface.
C17_CreatedByWireInAnyState ==
    /\ []UnknownFrameAllocates
    /\ [][~aborted' =>
             \A p \in PeerIds :
                 Created(p) =>
                     \/ op' = "bootstrapPeer"
                     \/ /\ op' = "incomingFromWire"
                        /\ peers'[p].isIncomingConnection
                        /\ peers'[p].auth # NoPassword
                              => icis[peers'[p].ici].beaconState
                                     # beaconState_newState_OFF]_vars

C17_Witness_CreatedWhileOff ==
    /\ op = "incomingFromWire" /\ ~aborted
    /\ \E p \in PeerIds :
          /\ peers[p].status = "live"
          /\ peers[p].isIncomingConnection
          /\ peers[p].auth = NoPassword
          /\ icis[peers[p].ici].beaconState = beaconState_newState_OFF
          /\ events # <<>>

\* C18: in every state, when the session rejects the first frame from an
\* unknown lladdr, the Peer made for it is destroyed by the same handler and
\* silently: the map and the switch slots are as before and no event is
\* published.
C18_RejectedFirstFrameSilent ==
    (~aborted /\ NewPeerId(World) # 0) =>
        \A ifn \in 1 .. Len(icis) : \A lladdr \in LLAddrs :
            (~icis[ifn].released /\ Map_indexForKey(peerMap[ifn], lladdr) = -1)
                => \A f \in {g \in Frames : g.reject} :
                      LET w == handleIncomingFromWire(
                                   World, ifn,
                                   [kind |-> "frame", lladdr |-> lladdr,
                                    frame |-> f], 0)
                      IN /\ ~w.aborted
                         /\ w.peers[NewPeerId(World)].status = "freed"
                         /\ w.peerMap = peerMap
                         /\ w.slots = slots
                         /\ w.events = <<>>

\* The Peers the switch can send a message to: alive and in a slot.
Sendable == {p \in PeerIds : peers[p].status = "live" /\ \E l \in Labels : slots[l] = p}

\* C19 as claimed: in every state, sendFromSwitch for a Peer that is silent
\* for longer than unresponsiveAfter returns UNDELIVERABLE; for another Peer
\* an UNDELIVERABLE of the session becomes success; in both cases the message
\* goes to the session.
C19_SilentIsUndeliverable ==
    ~aborted =>
        \A p \in Sendable : \A sessRet \in SessionRets :
            LET w == sendFromSwitch(World, p, sessRet) IN
            /\ Silent(World, p) => w.ret = Error_UNDELIVERABLE
            /\ (~Silent(World, p) /\ sessRet = Error_UNDELIVERABLE)
                   => w.ret = Error_NONE
            /\ w.encrypted = <<p>>

\* C19 amended: an UNDELIVERABLE of the session counts as success; any other
\* error of the session is returned as it is, silent Peer or not; with no
\* error left, a Peer that is silent for longer than unresponsiveAfter gets
\* UNDELIVERABLE and another Peer success.  The message goes to the session
\* once in every case and nothing else changes.
C19_SessionErrorFirst ==
    ~aborted =>
        \A p \in Sendable : \A sessRet \in SessionRets :
            LET w == sendFromSwitch(World, p, sessRet)
                expected ==
                    IF sessRet \notin {Error_NONE, Error_UNDELIVERABLE} THEN sessRet
                    ELSE IF Silent(World, p) THEN Error_UNDELIVERABLE
                    ELSE Error_NONE
            IN w = [World EXCEPT !.ret = expected, !.encrypted = <<p>>]

C19_Witness_SilentPeerSend ==
    /\ op = "sendFromSwitch" /\ ~aborted
    /\ ret = Error_UNDELIVERABLE
    /\ \E p \in Sendable : encrypted = <<p>> /\ Silent(World, p)

\* The number of PEER events of the sequence evs about Peer p that are
\* addressed to pathfinder pf.
PeerEventCount(evs, pf, p) ==
    Cardinality({i \in 1 .. Len(evs) :
                    evs[i].ev = "PEER" /\ evs[i].pf = pf /\ evs[i].peer = p})

\* C20: in every state, the answer to pathfinder pf's request for the peers
\* is one PEER event to pf for each live Peer in state ESTABLISHED, no event
\* for another Peer and no other event, and the request changes no state.
C20_EnumerateEstablished ==
    ~aborted =>
        \A pf \in Pathfinders : \A ub \in UbChoices :
            LET w == incomingFromEventEmitterIf(World, pf, ub) IN
            ~w.aborted =>
                /\ \A p \in PeerIds :
                      PeerEventCount(w.events, pf, p) =
                          IF /\ peers[p].status = "live"
                             /\ peers[p].state = IfController_PeerState_ESTABLISHED
                          THEN 1 ELSE 0
                /\ \A i \in 1 .. Len(w.events) :
                      w.events[i].ev = "PEER" /\ w.events[i].pf = pf
                /\ Unchanged(w)

\* C21: in every state, an interface whose scope was released has no live
\* Peer and is out of the controller: the ping tick, the beacon tick and the
\* enumeration run without touching it, whatever its freed memory holds, and
\* the admin calls with its number answer that there is no such interface.
C21_ReleasedIfaceRemoved ==
    ~aborted =>
        \A ifn \in 1 .. Len(icis) :
            icis[ifn].released =>
                /\ \A p \in PeerIds :
                      peers[p].status = "live" => peers[p].ici # ifn
                /\ \A ub \in BOOLEAN :
                      /\ ~pingCallback(World, [i \in 1 .. MaxIfaces |-> 0], ub).aborted
                      /\ ~beaconInterval(World, ub).aborted
                      /\ \A pf \in Pathfinders :
                            ~incomingFromEventEmitterIf(World, pf, ub).aborted
                      /\ IfController_beaconState(
                             World, ifn - 1, beaconState_newState_ACCEPT, ub).ret
                            = beaconState_NO_SUCH_IFACE
                      /\ IfController_bootstrapPeer(
                             World, ifn - 1, "k1", "pw1", "A", 0, ub).ret
                            = bootstrapPeer_BAD_IFNUM

\* The Peers a switch ping is in flight for.
Pinged == {p \in PeerIds : peers[p].status = "live" /\ pings[p] > 0}

\* An OK response with a compatible version and the Peer's own label sets
\* the version and timeOfLastPing, publishes PEER for an Established Peer to
\* all pathfinders, and changes nothing else.
OkResponseStamps ==
    ~aborted =>
        \A p \in Pinged :
            LET w == onPingResponse(World, p, "OK", "cur", peers[p].path) IN
            w = [World EXCEPT
                    !.peers[p].version = "cur",
                    !.peers[p].timeOfLastPing = now,
                    !.events =
                        IF peers[p].state = IfController_PeerState_ESTABLISHED
                        THEN <<[ev |-> "PEER", pf |-> AllPathfinders, peer |-> p,
                                key |-> peers[p].key, path |-> peers[p].path,
                                version |-> "cur"]>>
                        ELSE <<>>]

\* C22: an OK ping response with a compatible version sets the Peer's
\* version and its timeOfLastPing and publishes PEER exactly for an
\* Established Peer; and timeOfLastPing of a Peer that stays alive changes
\* in no other handler: not when a ping is sent, not when a ping fails.
C22_TimeOfLastPingOnlyOnResponse ==
    /\ []OkResponseStamps
    /\ [][\A p \in PeerIds :
             (/\ peers[p].status = "live" /\ peers'[p].status = "live"
              /\ peers'[p].timeOfLastPing # peers[p].timeOfLastPing)
                 => /\ op' = "onPingResponse"
                    /\ peers'[p].timeOfLastPing = now
                    /\ Version_isCompatible(peers'[p].version)]_vars

C22_Witness_ResponseStamped ==
    /\ op = "onPingResponse" /\ ~aborted
    /\ now > 0
    /\ \E p \in PeerIds :
          /\ peers[p].status = "live"
          /\ peers[p].timeOfLastPing = now
          /\ peers[p].version = "cur"
          /\ peers[p].state = IfController_PeerState_ESTABLISHED
          /\ events # <<>>

\* The step acts on Peer p: it pings it, publishes an event about it,
\* changes a field of it or destroys it.
ActsOn(p) ==
    \/ peers'[p] # peers[p]
    \/ \E i \in 1 .. Len(pinged') : pinged'[i] = p
    \/ \E i \in 1 .. Len(events') : events'[i].peer = p

\* C23: a ping tick acts on a Peer only when both its last message and its
\* last ping response are at least pingAfter old (here for a Peer whose
\* timeOfLastMessage is a time in the past).
C23_TickNeedsBothOld ==
    [][(op' = "pingCallback" /\ ~aborted') =>
          \A p \in PeerIds :
              (/\ peers[p].status = "live"
               /\ peers[p].timeOfLastMessage <= now
               /\ ActsOn(p))
                  => /\ now >= peers[p].timeOfLastMessage + PING_AFTER_MILLISECONDS
                     /\ now >= peers[p].timeOfLastPing + PING_AFTER_MILLISECONDS]_vars

\* C24: a ping tick acts on at most one Peer of each interface.
C24_OnePeerPerLinkPerTick ==
    [][(op' = "pingCallback" /\ ~aborted') =>
          \A p, q \in PeerIds :
              (/\ peers[p].status = "live" /\ peers[q].status = "live"
               /\ peers[p].ici = peers[q].ici
               /\ ActsOn(p) /\ ActsOn(q))
                  => p = q]_vars

\* The ping tick finds Peer p, the only Peer of its interface, silent for
\* longer than unresponsiveAfter and does not forget it.
TickFindsUnresponsive(p) ==
    /\ peers[p].status = "live"
    /\ InMap(peerMap, peers, p)
    /\ Len(peerMap[peers[p].ici]) = 1
    /\ ~icis[peers[p].ici].released
    /\ ~RecentlySeen(World, peers[p])
    /\ ~ForgetCond(World, peers[p])
    /\ Unresponsive(World, peers[p])

\* C25: a Peer that the ping tick finds silent for longer than
\* unresponsiveAfter, and does not forget, is UNRESPONSIVE after the tick and
\* PEER_GONE is published, whatever its pingCount.
C25_SilentBecomesUnresponsive ==
    [][(op' = "pingCallback" /\ ~aborted') =>
          \A p \in PeerIds :
              TickFindsUnresponsive(p)
                  => /\ peers'[p].state = IfController_PeerState_UNRESPONSIVE
                     /\ GoneCount(events', p) >= 1]_vars

\* C26: a Peer's state becomes UNRESPONSIVE only from ESTABLISHED.
C26_UnresponsiveOnlyFromEstablished ==
    [][~aborted' =>
          \A p \in PeerIds :
              (/\ peers[p].status = "live" /\ peers'[p].status = "live"
               /\ peers[p].state # IfController_PeerState_UNRESPONSIVE
               /\ peers'[p].state = IfController_PeerState_UNRESPONSIVE)
                  => peers[p].state = IfController_PeerState_ESTABLISHED]_vars

\* The number of times the handler called sendPing for Peer p.
PingedCount(ps, p) == Cardinality({i \in 1 .. Len(ps) : ps[i] = p})

C28_IncompatibleResponseIgnored ==
    ~aborted =>
        \A p \in Pinged : \A label \in Labels :
            onPingResponse(World, p, "OK", "old", label) = World

\* C29: in every state, an OK ping response whose label is not the Peer's
\* path changes neither the Peer's version nor its timeOfLastPing and
\* publishes no event.
C29_MismatchedLabelIgnored ==
    ~aborted =>
        \A p \in Pinged : \A label \in Labels \ {peers[p].path} :
            \A version \in Versions :
                LET w == onPingResponse(World, p, "OK", version, label) IN
                /\ w.peers[p].version = peers[p].version
                /\ w.peers[p].timeOfLastPing = peers[p].timeOfLastPing
                /\ w.events = <<>>

\* C30: in every state, a valid frame for a Peer in state UNRESPONSIVE whose
\* session is established makes the Peer ESTABLISHED, publishes no event and
\* runs no relocation: the Peer keeps its path and no other Peer changes.
C30_RecoveryIsSilent ==
    ~aborted =>
        \A ifn \in 1 .. Len(icis) : \A i \in 1 .. Len(peerMap[ifn]) :
            LET p == peerMap[ifn][i].value IN
            (/\ ~icis[ifn].released
             /\ peers[p].state = IfController_PeerState_UNRESPONSIVE
             /\ peers[p].caState = CryptoAuth_ESTABLISHED)
                => LET w == handleIncomingFromWire(
                                World, ifn,
                                [kind |-> "frame", lladdr |-> peerMap[ifn][i].key,
                                 frame |-> [reject |-> FALSE,
                                            caState |-> CryptoAuth_ESTABLISHED,
                                            key |-> peers[p].caKey, hdrOk |-> TRUE,
                                            swRet |-> Error_NONE]], 0)
                   IN /\ ~w.aborted
                      /\ w.peers[p].state = IfController_PeerState_ESTABLISHED
                      /\ w.events = <<>>
                      /\ w.peers[p].path = peers[p].path
                      /\ \A q \in PeerIds \ {p} : w.peers[q] = peers[q]

\* The PEER events of a handler's output, whatever the pathfinder.
PeerEvents(evs) == {i \in 1 .. Len(evs) : evs[i].ev = "PEER"}

\* An inbound frame has moved live Peer p from a state of the handshake to
\* ESTABLISHED in this step.
BecomesEstablished(p) ==
    /\ op' = "incomingFromWire"
    /\ peers[p].status = "live"
    /\ peers[p].state >= IfController_PeerState_NEW
    /\ peers[p].state < IfController_PeerState_ESTABLISHED
    /\ peers'[p].status = "live"
    /\ peers'[p].state = IfController_PeerState_ESTABLISHED

\* An inbound frame of Peer p was handled in this step and p was ESTABLISHED
\* before it and is after it.
StaysEstablished(p) ==
    /\ op' = "incomingFromWire"
    /\ peers[p].status = "live"
    /\ peers[p].state = IfController_PeerState_ESTABLISHED
    /\ peers'[p].state = IfController_PeerState_ESTABLISHED
    /\ forwarded' = <<p>>

\* C31: a step in which an inbound frame moves a Peer from a state of the
\* handshake to ESTABLISHED publishes exactly one PEER event, as the last
\* event of the step (after the relocation's), addressed to every
\* pathfinder, with the key learned from the session and the path the Peer
\* has after the relocation; a step in which a frame arrives for a Peer
\* that was and stays ESTABLISHED publishes nothing.
C31_OnePeerEventOnEstablish ==
    [][\A p \in PeerIds :
          /\ BecomesEstablished(p) =>
                /\ PeerEvents(events') = {Len(events')}
                /\ LET e == events'[Len(events')] IN
                   /\ e.peer = p
                   /\ e.pf = AllPathfinders
                   /\ e.key = peers'[p].caKey
                   /\ e.key = peers'[p].key
                   /\ e.path = peers'[p].path
          /\ StaysEstablished(p) => events' = <<>>]_vars

\* A frame has completed the handshake of a Peer that another Peer of the
\* map had the key of: the other Peer was freed and announced gone, then
\* the Peer announced with the path it took over.
C31_Witness_RelocatedThenAnnounced ==
    /\ op = "incomingFromWire"
    /\ ~aborted
    /\ Len(events) = 2
    /\ events[1].ev = "PEER_GONE"
    /\ events[2].ev = "PEER"
    /\ events[2].peer # events[1].peer
    /\ events[2].path = events[1].path
    /\ peers[events[2].peer].state = IfController_PeerState_ESTABLISHED
    /\ peers[events[1].peer].status = "freed"

\* A frame arrived for a Peer that is ESTABLISHED and nothing was published.
C31_Witness_LaterFrameSilent ==
    /\ op = "incomingFromWire"
    /\ ~aborted
    /\ events = <<>>
    /\ Len(forwarded) = 1
    /\ peers[forwarded[1]].state = IfController_PeerState_ESTABLISHED
    /\ peers[forwarded[1]].timeOfLastMessage = now
    /\ now > 0

\* The Peer a frame from lladdr is for on interface ifn, NoPeer when the
\* lladdr is not in the map.
PeerOf(ifn, lladdr) ==
    LET i == Map_indexForKey(peerMap[ifn], lladdr) IN
    IF i = -1 THEN NoPeer ELSE peers[peerMap[ifn][i + 1].value]

\* The keys a frame of ep's session can be found to come from: the key the
\* session knows, any key while it knows none.
SessionKeys(ep) == IF ep.caKey = ZeroKey THEN RemoteKeys ELSE {ep.caKey}

\* A frame of length and byte 7 as given, decrypted by a session that is in
\* the handshake after it.
HandshakeFrame(key, length, byte7, swRet) ==
    [reject |-> FALSE, caState |-> IfController_PeerState_HANDSHAKE1,
     key |-> key, hdrOk |-> HeaderOk(length, byte7), swRet |-> swRet]

\* C32: in every state in which a handler runs, a frame that the session
\* decrypts without being established after it, for a Peer below
\* ESTABLISHED or from an unknown lladdr, reaches the switch only if it has
\* 8 bytes or more and its byte 7 is 1; any other such frame is dropped:
\* nothing is forwarded, no ping is sent and the handler returns Error_NONE.
C32_AdmissionGuard ==
    Running =>
        \A ifn \in 1 .. Len(icis) : \A lladdr \in LLAddrs :
        \A key \in SessionKeys(PeerOf(ifn, lladdr)) :
        \A length \in FrameLengths : \A byte7 \in HeaderBytes :
            LET f == HandshakeFrame(key, length, byte7, Error_NONE) IN
            (/\ ~icis[ifn].released
             /\ PeerOf(ifn, lladdr).state < IfController_PeerState_ESTABLISHED
             /\ SessionAllows(PeerOf(ifn, lladdr), f))
                => LET w == handleIncomingFromWire(
                                World, ifn,
                                [kind |-> "frame", lladdr |-> lladdr, frame |-> f], 0)
                   IN (~w.aborted /\ ~w.overflow) =>
                        IF length >= 8 /\ byte7 = 1
                        THEN Len(w.forwarded) = 1
                        ELSE /\ w.forwarded = <<>>
                             /\ w.pinged = <<>>
                             /\ w.ret = Error_NONE

\* The first frame of an unknown lladdr made a Peer, left its session in
\* the handshake and was dropped by the admission guard: the Peer has the
\* session's state and key and nothing went to the switch.
C32_Witness_Dropped ==
    /\ op = "incomingFromWire"
    /\ ~aborted
    /\ steps = 2
    /\ forwarded = <<>>
    /\ \E p \in PeerIds :
          /\ peers[p].status = "live"
          /\ peers[p].isIncomingConnection
          /\ peers[p].state = IfController_PeerState_HANDSHAKE1
          /\ peers[p].key \in RemoteKeys

\* The last handler took a frame of Peer p, whose session is still in the
\* handshake, passed it to the switch and sent p a switch ping.
FramePinged(p) ==
    /\ op = "incomingFromWire"
    /\ ~aborted
    /\ peers[p].status = "live"
    /\ peers[p].state < IfController_PeerState_ESTABLISHED
    /\ forwarded = <<p>>
    /\ pinged = <<p>>

\* C33: while a Peer's session is not established, at most one of every 7
\* inbound decrypted frames sends it a switch ping: two frames of the Peer
\* handled one after the other are never both answered with a ping.
C33_PingOneFrameInSeven ==
    [][\A p \in PeerIds : FramePinged(p) => ~FramePinged(p)']_vars

\* C34: a step in which a frame of Peer p was decrypted and passed to the
\* switch leaves p's timeOfLastMessage at the current time, whatever the
\* state of p.
C34_ValidFrameStampsTime ==
    [][\A p \in PeerIds :
          (/\ op' = "incomingFromWire"
           /\ ~aborted'
           /\ forwarded' = <<p>>
           /\ peers'[p].status = "live")
              => peers'[p].timeOfLastMessage = now']_vars

\* Live incoming Peer p of an interface that is not released has been
\* silent for longer than forgetAfter (and so for longer than pingAfter).
SilentIncoming(p) ==
    /\ peers[p].status = "live"
    /\ peers[p].ici \in 1 .. Len(icis)
    /\ ~icis[peers[p].ici].released
    /\ ForgetCond(World, peers[p])
    /\ ~RecentlySeen(World, peers[p])

\* The scan starts a ping tick can draw, one for each interface.
ScanStarts == [1 .. MaxIfaces -> 0 .. (MaxPeers - 1)]

\* C35: an incoming Peer that receives no more valid frames is destroyed by
\* the ping ticks under a fair choice of the random scan start, whatever
\* other Peers are on its link: in every state, for every incoming Peer
\* that has been silent for longer than forgetAfter some scan start makes
\* the tick destroy it.
C35_SilentIncomingForgotten ==
    ~aborted =>
        \A p \in PeerIds :
            SilentIncoming(p) =>
                \E starts \in ScanStarts :
                    Destroyed(pingCallback(World, starts, FALSE), p)
====
